---------------------------- MODULE Spec2Model ----------------------------
(***************************************************************************)
(* Model of the vm-lang host (src/unnamed/part_000): the command line      *)
(* split of Parameters::Parse, the Argc/Argv bindings, the JsonStateMap    *)
(* state store (Read / Write / Exists / LoadFromFile / SaveToFile) and the *)
(* control flow of main.                                                   *)
(*                                                                         *)
(* Text (file contents, keys, hex text) is a sequence of one-character     *)
(* strings; a byte is a number in 0..255; a byte sequence is a sequence of *)
(* bytes.                                                                  *)
(***************************************************************************)
EXTENDS Integers, Sequences, FiniteSets, TLC

(***************************************************************************)
(* Bounds of the model.                                                    *)
(***************************************************************************)
\* longest byte sequence a caller writes, and largest buffer it reads into
MaxLen == 2
\* number of store operations of one harness run / of one script call
MaxOps == 3
\* number of script arguments on the command line
MaxArgs == 2

\* the keys the callers use
Keys == {<<"x">>, <<"y">>}
\* the byte sequences the callers write: the prefixes, up to MaxLen bytes, of
\* the two byte streams AD 5A 07 ... and 00 10 20 ...
Payloads ==
    {[i \in 1..n |-> (173 * i) % 256] : n \in 0..MaxLen}
        \cup {[i \in 1..n |-> ((i - 1) * 16) % 256] : n \in 0..MaxLen}

(***************************************************************************)
(* Hex codec (core/byte_array encoders/decoders): two hex characters per   *)
(* byte, lower case on encode, case-insensitive on decode.                 *)
(***************************************************************************)
HexLower == <<"0","1","2","3","4","5","6","7","8","9","a","b","c","d","e","f">>
HexUpper == <<"0","1","2","3","4","5","6","7","8","9","A","B","C","D","E","F">>

IsHexChar(c) == \E i \in 1..16 : HexLower[i] = c \/ HexUpper[i] = c

DecodeHexChar(c) == (CHOOSE i \in 1..16 : HexLower[i] = c \/ HexUpper[i] = c) - 1

IsHexText(t) == Len(t) % 2 = 0 /\ \A i \in 1..Len(t) : IsHexChar(t[i])

RECURSIVE ToHex(_)
ToHex(bytes) ==
    IF bytes = <<>> THEN <<>>
    ELSE <<HexLower[(Head(bytes) \div 16) + 1], HexLower[(Head(bytes) % 16) + 1]>>
         \o ToHex(Tail(bytes))

\* defined on hex text (even length, hex digits only)
FromHex(t) ==
    [i \in 1..(Len(t) \div 2) |->
        DecodeHexChar(t[2 * i - 1]) * 16 + DecodeHexChar(t[2 * i])]

(***************************************************************************)
(* Variant values (variant/variant.hpp): the tree the store keeps.         *)
(***************************************************************************)
VString(t)  == [kind |-> "string", text |-> t, members |-> << >>]
VNumber(t)  == [kind |-> "number", text |-> t, members |-> << >>]
VArray      == [kind |-> "array",  text |-> << >>, members |-> << >>]
VObject(m)  == [kind |-> "object", text |-> << >>, members |-> m]

\* Variant::Object(): an object with no members
EmptyObject == VObject(<< >>)

IsObject(v) == v.kind = "object"
Has(v, key) == IsObject(v) /\ key \in DOMAIN v.members

(***************************************************************************)
(* JSON text of a Variant (operator<< of variant/variant.hpp) and the      *)
(* parser of core/json/document.hpp, on the subset of JSON the state file  *)
(* uses: objects, arrays, strings without escapes, unsigned numbers.       *)
(***************************************************************************)
\* some fixed enumeration of a finite set
RECURSIVE SetToSeq(_)
SetToSeq(S) ==
    IF S = {} THEN <<>>
    ELSE LET e == CHOOSE x \in S : TRUE
         IN  <<e>> \o SetToSeq(S \ {e})

RECURSIVE SerializeMembers(_, _)
RECURSIVE Serialize(_)
SerializeMembers(m, ks) ==
    IF ks = <<>> THEN <<>>
    ELSE <<"\"">> \o Head(ks) \o <<"\"", ":", " ">> \o Serialize(m[Head(ks)])
         \o (IF Len(ks) > 1 THEN <<",", " ">> ELSE <<>>)
         \o SerializeMembers(m, Tail(ks))

Serialize(v) ==
    CASE v.kind = "string" -> <<"\"">> \o v.text \o <<"\"">>
      [] v.kind = "number" -> v.text
      [] v.kind = "array"  -> <<"[", "]">>
      [] v.kind = "object" ->
            <<"{">> \o SerializeMembers(v.members, SetToSeq(DOMAIN v.members)) \o <<"}">>

Digits == {"0","1","2","3","4","5","6","7","8","9"}
NoParse == [ok |-> FALSE, val |-> VArray, next |-> 0]

RECURSIVE SkipWs(_, _)
SkipWs(t, i) == IF i <= Len(t) /\ t[i] = " " THEN SkipWs(t, i + 1) ELSE i

\* index of the first character at or after i that is in (or, with inside
\* FALSE, not in) the set S; Len(t) + 1 when there is none
RECURSIVE Scan(_, _, _, _)
Scan(t, i, S, inside) ==
    IF i > Len(t) \/ ((t[i] \in S) = inside) THEN i ELSE Scan(t, i + 1, S, inside)

\* a string literal starting at the quote t[i]
ParseString(t, i) ==
    LET close == Scan(t, i + 1, {"\""}, TRUE)
    IN  IF close > Len(t) THEN NoParse
        ELSE [ok |-> TRUE, val |-> VString(SubSeq(t, i + 1, close - 1)), next |-> close + 1]

RECURSIVE ParseValue(_, _)
RECURSIVE ParseMembers(_, _, _)
\* the members of an object from position i (after "{" or ","), added to m
ParseMembers(t, i, m) ==
    LET k == SkipWs(t, i)
    IN  IF k > Len(t) \/ t[k] # "\"" THEN NoParse
        ELSE LET key   == ParseString(t, k)
                 colon == IF key.ok THEN SkipWs(t, key.next) ELSE 0
             IN  IF ~key.ok \/ colon > Len(t) \/ t[colon] # ":" THEN NoParse
                 ELSE LET v   == ParseValue(t, colon + 1)
                          sep == IF v.ok THEN SkipWs(t, v.next) ELSE 0
                          m2  == [x \in DOMAIN m \cup {key.val.text} |->
                                     IF x = key.val.text THEN v.val ELSE m[x]]
                      IN  IF ~v.ok \/ sep > Len(t) THEN NoParse
                          ELSE IF t[sep] = "}"
                               THEN [ok |-> TRUE, val |-> VObject(m2), next |-> sep + 1]
                          ELSE IF t[sep] = ","
                               THEN ParseMembers(t, sep + 1, m2)
                          ELSE NoParse

ParseValue(t, i) ==
    LET s == SkipWs(t, i)
    IN  IF s > Len(t) THEN NoParse
        ELSE IF t[s] = "\"" THEN ParseString(t, s)
        ELSE IF t[s] \in Digits
             THEN LET e == Scan(t, s, Digits, FALSE)
                  IN  [ok |-> TRUE, val |-> VNumber(SubSeq(t, s, e - 1)), next |-> e]
        ELSE IF t[s] = "["
             THEN LET c == SkipWs(t, s + 1)
                  IN  IF c <= Len(t) /\ t[c] = "]"
                      THEN [ok |-> TRUE, val |-> VArray, next |-> c + 1]
                      ELSE NoParse
        ELSE IF t[s] = "{"
             THEN LET c == SkipWs(t, s + 1)
                  IN  IF c <= Len(t) /\ t[c] = "}"
                      THEN [ok |-> TRUE, val |-> EmptyObject, next |-> c + 1]
                      ELSE ParseMembers(t, s + 1, << >>)
        ELSE NoParse

\* JSONDocument{text}: the root value, or a parse failure
ParseDocument(t) ==
    LET r == ParseValue(t, 1)
    IN  IF r.ok /\ SkipWs(t, r.next) > Len(t) THEN r ELSE NoParse

(***************************************************************************)
(* Command line.  Parameters::Parse splits argv at the "--" separators     *)
(* into the program's arguments and the script's.                          *)
(***************************************************************************)
SEPARATOR == "--"

\* the loop of lines 72 to 84: lists is the pair of lists, current the one
\* being filled
RECURSIVE ParseLoop(_, _, _, _)
ParseLoop(argv, i, current, lists) ==
    IF i > Len(argv) THEN lists
    ELSE IF argv[i] = SEPARATOR
         THEN ParseLoop(argv, i + 1, "script_args", lists)
         ELSE ParseLoop(argv, i + 1, current,
                        [lists EXCEPT ![current] = Append(@, argv[i])])

\* the split without argv[0] at the head of the script's list (line 68)
SplitArgs_NoProgramName(argv) ==
    ParseLoop(argv, 2, "program_args",
              [program_args |-> <<argv[1]>>, script_args |-> <<>>])

\* program_args and script_args at line 86
SplitArgs(argv) ==
    ParseLoop(argv, 2, "program_args",
              [program_args |-> <<argv[1]>>, script_args |-> <<argv[1]>>])

\* commandline::ParamsParser::Parse: a token with a leading "-" names an
\* option and takes the token after it as its value (or "1" when there is
\* none or it is an option too); every other token is a positional argument
OptionTokens == {"-data", "-func"}
OptionName(token) == IF token = "-data" THEN "data" ELSE "func"

RECURSIVE ParamsParse(_, _, _)
ParamsParse(list, i, acc) ==
    IF i > Len(list) THEN acc
    ELSE IF list[i] \in OptionTokens
         THEN IF i = Len(list) \/ list[i + 1] \in OptionTokens
              THEN ParamsParse(list, i + 1,
                       [acc EXCEPT !.params = [n \in DOMAIN @ \cup {OptionName(list[i])} |->
                            IF n = OptionName(list[i]) THEN "1" ELSE @[n]]])
              ELSE ParamsParse(list, i + 2,
                       [acc EXCEPT !.params = [n \in DOMAIN @ \cup {OptionName(list[i])} |->
                            IF n = OptionName(list[i]) THEN list[i + 1] ELSE @[n]]])
         ELSE ParamsParse(list, i + 1, [acc EXCEPT !.args = Append(@, list[i])])

NoParams == [args |-> <<>>, params |-> << >>]

GetParam(pp, name, default) ==
    IF name \in DOMAIN pp.params THEN pp.params[name] ELSE default

\* Parameters::Parse: program_params_ and script_args_
Parse(argv) ==
    LET lists == SplitArgs(argv)
    IN  [program_params_ |-> ParamsParse(lists.program_args, 1, NoParams),
         script_args_    |-> lists.script_args]

\* the command lines of the runs: the program's part, then nothing or a
\* separator and the script's part
ProgramParts ==
    { <<>>,
      <<"s.etch">>,
      <<"-data", "state.json", "s.etch">>,
      <<"s.etch", "t.etch">> }

ScriptArg(i) == IF i % 2 = 1 THEN "a" ELSE "b"

ScriptParts ==
    {<<>>, <<SEPARATOR, "a", SEPARATOR, "b">>}
        \cup {<<SEPARATOR>> \o [i \in 1..n |-> ScriptArg(i)] : n \in 0..MaxArgs}

CommandLines == {<<"vm-lang">> \o p \o t : p \in ProgramParts, t \in ScriptParts}

\* the diagnostics a compilation may return
DiagnosticLists == {<<>>, <<"e1">>, <<"e1", "e2">>, <<"e2", "e1">>}

(***************************************************************************)
(* Files.  A path names a file that is absent or has a text.               *)
(***************************************************************************)
AbsentFile   == [exists |-> FALSE, text |-> <<>>]
FileOf(text) == [exists |-> TRUE, text |-> text]

\* the state files a run may find at its data path: none, an empty one, one
\* whose root is a list, and well-formed state documents (hex text of either
\* case under each key)
StateFiles ==
    { AbsentFile,
      FileOf(<<>>),
      FileOf(<<"[", "]">>),
      FileOf(<<"{", "}">>),
      FileOf(<<"{", "\"", "x", "\"", ":", "\"", "A", "d", "0", "0", "\"", "}">>),
      FileOf(<<"{", " ", "\"", "y", "\"", " ", ":", " ", "\"", "\"", ",",
               "\"", "x", "\"", ":", "\"", "a", "D", "\"", " ", "}">>) }

ReadFileContents(f) ==
    IF ~f.exists THEN <<>>              \* !f.is_open()
    ELSE IF Len(f.text) = 0 THEN <<>>   \* size == 0
    ELSE f.text

(***************************************************************************)
(* JsonStateMap.  Each operation is an operator from the store's document  *)
(* (data_) and the arguments to the results and the new document.          *)
(***************************************************************************)
\* LoadFromFile without the assignment of line 183
LoadFromFile_KeepsData(data, f) ==
    LET file_contents == ReadFileContents(f)
    IN  IF file_contents # <<>>
        THEN LET document == ParseDocument(file_contents)
             IN  IF ~document.ok
                 THEN [threw |-> "JSONParseException", data |-> data]
                 ELSE IF ~IsObject(document.val)
                 THEN [threw |-> "runtime_error", data |-> data]
                 ELSE [threw |-> "none", data |-> data]
        ELSE [threw |-> "none", data |-> data]

\* LoadFromFile without the test of the root of lines 177 to 180
LoadFromFile_NoRootCheck(data, f) ==
    LET file_contents == ReadFileContents(f)
    IN  IF file_contents # <<>>
        THEN LET document == ParseDocument(file_contents)
             IN  IF ~document.ok
                 THEN [threw |-> "JSONParseException", data |-> data]
                 ELSE [threw |-> "none", data |-> document.val]
        ELSE [threw |-> "none", data |-> data]

\* LoadFromFile without the test of line 172: an empty text is parsed too
LoadFromFile_ParsesEmpty(data, f) ==
    LET file_contents == ReadFileContents(f)
        document == ParseDocument(file_contents)
    IN  IF ~document.ok
        THEN [threw |-> "JSONParseException", data |-> data]
        ELSE IF ~IsObject(document.val)
        THEN [threw |-> "runtime_error", data |-> data]
        ELSE [threw |-> "none", data |-> document.val]

\* LoadFromFile that adds the members of the file to those of the store
LoadFromFile_Merges(data, f) ==
    LET file_contents == ReadFileContents(f)
    IN  IF file_contents # <<>>
        THEN LET document == ParseDocument(file_contents)
             IN  IF ~document.ok
                 THEN [threw |-> "JSONParseException", data |-> data]
                 ELSE IF ~IsObject(document.val)
                 THEN [threw |-> "runtime_error", data |-> data]
                 ELSE [threw |-> "none",
                       data |-> VObject([k \in DOMAIN data.members
                                               \cup DOMAIN document.val.members |->
                                   IF k \in DOMAIN document.val.members
                                   THEN document.val.members[k]
                                   ELSE data.members[k]])]
        ELSE [threw |-> "none", data |-> data]

\* the store after LoadFromFile(f), or the exception it throws
LoadFromFile(data, f) ==
    LET file_contents == ReadFileContents(f)
    IN  IF file_contents # <<>>
        THEN LET document == ParseDocument(file_contents)
             IN  IF ~document.ok
                 THEN [threw |-> "JSONParseException", data |-> data]
                 ELSE IF ~IsObject(document.val)
                 THEN [threw |-> "runtime_error", data |-> data]
                 ELSE [threw |-> "none", data |-> document.val]
        ELSE [threw |-> "none", data |-> data]

\* the file SaveToFile(path) leaves at the path
SaveToFile(data) == FileOf(Serialize(data))

\* Read with "size > value.size()" for the test of line 205
Read_StrictCapacity(data, key, buf, size) ==
    IF Has(data, key)
    THEN LET value == FromHex(data.members[key].text)
         IN  IF size > Len(value)
             THEN [status |-> "OK", size |-> Len(value),
                   buf |-> value \o SubSeq(buf, Len(value) + 1, Len(buf)),
                   data |-> data]
             ELSE [status |-> "BUFFER_TOO_SMALL", size |-> Len(value), buf |-> buf, data |-> data]
    ELSE [status |-> "ERROR", size |-> size, buf |-> buf, data |-> data]

\* Read with the size update of line 214 made only when the value was copied
Read_SizeOnlyOnCopy(data, key, buf, size) ==
    IF Has(data, key)
    THEN LET value == FromHex(data.members[key].text)
         IN  IF size >= Len(value)
             THEN [status |-> "OK", size |-> Len(value),
                   buf |-> value \o SubSeq(buf, Len(value) + 1, Len(buf)),
                   data |-> data]
             ELSE [status |-> "BUFFER_TOO_SMALL", size |-> size, buf |-> buf, data |-> data]
    ELSE [status |-> "ERROR", size |-> size, buf |-> buf, data |-> data]

\* Read with the size update of line 214 moved out of the test of line 200
Read_SizeAlways(data, key, buf, size) ==
    IF Has(data, key)
    THEN LET value == FromHex(data.members[key].text)
         IN  IF size >= Len(value)
             THEN [status |-> "OK", size |-> Len(value),
                   buf |-> value \o SubSeq(buf, Len(value) + 1, Len(buf)),
                   data |-> data]
             ELSE [status |-> "BUFFER_TOO_SMALL", size |-> Len(value), buf |-> buf, data |-> data]
    ELSE [status |-> "ERROR", size |-> 0, buf |-> buf, data |-> data]

\* Read with the memcpy of line 208 made before the test of line 205, of as
\* many bytes as the buffer holds
Read_PartialCopy(data, key, buf, size) ==
    IF Has(data, key)
    THEN LET value == FromHex(data.members[key].text)
         IN  IF size >= Len(value)
             THEN [status |-> "OK", size |-> Len(value),
                   buf |-> value \o SubSeq(buf, Len(value) + 1, Len(buf)),
                   data |-> data]
             ELSE [status |-> "BUFFER_TOO_SMALL", size |-> Len(value),
                   buf |-> SubSeq(value, 1, size), data |-> data]
    ELSE [status |-> "ERROR", size |-> size, buf |-> buf, data |-> data]

\* Read with data_[key] evaluated before the test of line 200: indexing an
\* object by a key it does not have adds the key, with an empty string
Read_CreatesKey(data, key, buf, size) ==
    IF Has(data, key)
    THEN LET value == FromHex(data.members[key].text)
         IN  IF size >= Len(value)
             THEN [status |-> "OK", size |-> Len(value),
                   buf |-> value \o SubSeq(buf, Len(value) + 1, Len(buf)),
                   data |-> data]
             ELSE [status |-> "BUFFER_TOO_SMALL", size |-> Len(value), buf |-> buf, data |-> data]
    ELSE [status |-> "ERROR", size |-> size, buf |-> buf,
          data |-> VObject([k \in DOMAIN data.members \cup {key} |->
                               IF k = key THEN VString(<<>>) ELSE data.members[k]])]

\* Read(key, data, size): buf is the caller's buffer, size its capacity on
\* entry; the result holds the status, the size on return and the buffer
Read(data, key, buf, size) ==
    IF Has(data, key)
    THEN LET value == FromHex(data.members[key].text)
         IN  IF size >= Len(value)
             THEN [status |-> "OK", size |-> Len(value),
                   buf |-> value \o SubSeq(buf, Len(value) + 1, Len(buf)),
                   data |-> data]
             ELSE [status |-> "BUFFER_TOO_SMALL", size |-> Len(value), buf |-> buf, data |-> data]
    ELSE [status |-> "ERROR", size |-> size, buf |-> buf, data |-> data]

\* Write that replaces the whole document by the one entry
Write_DropsOthers(data, key, bytes) ==
    [status |-> "OK",
     data   |-> VObject([k \in {key} |-> VString(ToHex(bytes))])]

\* Write that only inserts: an existing entry keeps its value
Write_InsertOnly(data, key, bytes) ==
    [status |-> "OK",
     data   |-> VObject([k \in DOMAIN data.members \cup {key} |->
                            IF k \in DOMAIN data.members THEN data.members[k]
                            ELSE VString(ToHex(bytes))])]

\* Write that keeps one hex digit, the high one, of every byte
Write_HighDigitOnly(data, key, bytes) ==
    [status |-> "OK",
     data   |-> VObject([k \in DOMAIN data.members \cup {key} |->
                            IF k = key
                            THEN VString([i \in 1..Len(bytes) |->
                                             HexLower[(bytes[i] \div 16) + 1]])
                            ELSE data.members[k]])]

\* Write(key, data, size): bytes are the size bytes at data
Write(data, key, bytes) ==
    [status |-> "OK",
     data   |-> VObject([k \in DOMAIN data.members \cup {key} |->
                            IF k = key THEN VString(ToHex(bytes)) ELSE data.members[k]])]

Exists(data, key) == IF Has(data, key) THEN "OK" ELSE "ERROR"

\* a caller's buffer of the given capacity, filled with 0xCC
Buffer(capacity) == [i \in 1..capacity |-> 204]

\* the byte sequence under every key of a document
Contents(data) == [k \in DOMAIN data.members |-> FromHex(data.members[k].text)]

(***************************************************************************)
(* State.                                                                  *)
(***************************************************************************)
VARIABLES
    data_,          \* JsonStateMap::data_
    file,           \* the file at the data path
    last,           \* the latest call on the store or a binding, with its results
    prev,           \* the call before it
    before,         \* data_ as the latest call found it
    before_prev,    \* data_ as the call before it found it
    nops,           \* number of calls made so far
    written,        \* keys written since the store was constructed
    pristine,       \* no LoadFromFile since the store was constructed
    saved           \* the contents of the store at the latest SaveToFile

VARIABLES
    argv,            \* the command line of the run
    pc,              \* where main is
    program_params_, \* Parameters::program_params_
    script_args_,    \* Parameters::script_args_
    errors,          \* the diagnostics of the compilation
    cerr,            \* the lines written to std::cerr
    console,         \* the console text Execute returned
    cout,            \* the text written to std::cout
    success,         \* what Execute returned
    outcome,         \* how the call of the function ended: completed, fault, not_found
    exit_code,       \* how the process ended
    events,          \* the steps main has taken, in order
    committed        \* the bytes under each key as loaded and then written by the script

storeVars == <<data_, file, last, prev, before, before_prev, nops, written, pristine, saved>>
harnessVars == <<prev, before, before_prev, nops, written, pristine, saved>>
hostVars == <<argv, pc, program_params_, script_args_, errors, cerr, console, cout,
              success, outcome, exit_code, events, committed>>
vars == <<storeVars, hostVars>>

NoCall == [op |-> "none", key |-> <<>>, bytes |-> <<>>, cap |-> 0, buf0 |-> <<>>,
           status |-> "none", size |-> 0, buf |-> <<>>, ret |-> "",
           index |-> 0]

NotSaved == [valid |-> FALSE, content |-> << >>]

\* the bookkeeping every call shares
Record(call) ==
    /\ last' = call
    /\ prev' = last
    /\ before' = data_
    /\ before_prev' = before

Called(call) ==
    /\ nops < MaxOps
    /\ nops' = nops + 1
    /\ Record(call)

CallWrite(key, bytes) ==
    LET r == Write(data_, key, bytes)
    IN  /\ Called([NoCall EXCEPT !.op = "Write", !.key = key, !.bytes = bytes,
                                 !.status = r.status])
        /\ data_' = r.data
        /\ written' = written \cup {key}
        /\ UNCHANGED <<file, pristine, saved>>

CallRead(key, capacity) ==
    LET r == Read(data_, key, Buffer(capacity), capacity)
    IN  /\ Called([NoCall EXCEPT !.op = "Read", !.key = key, !.cap = capacity,
                                 !.buf0 = Buffer(capacity), !.status = r.status,
                                 !.size = r.size, !.buf = r.buf])
        /\ data_' = r.data
        /\ UNCHANGED <<file, written, pristine, saved>>

CallExists(key) ==
    /\ Called([NoCall EXCEPT !.op = "Exists", !.key = key, !.status = Exists(data_, key)])
    /\ UNCHANGED <<data_, file, written, pristine, saved>>

CallLoadFromFile ==
    LET r == LoadFromFile(data_, file)
    IN  /\ Called([NoCall EXCEPT !.op = "LoadFromFile", !.status = r.threw])
        /\ data_' = r.data
        /\ pristine' = FALSE
        /\ UNCHANGED <<file, written, saved>>

CallSaveToFile ==
    /\ Called([NoCall EXCEPT !.op = "SaveToFile"])
    /\ file' = SaveToFile(data_)
    /\ saved' = [valid |-> TRUE, content |-> Contents(data_)]
    /\ UNCHANGED <<data_, written, pristine>>

\* JsonStateMap(): a new store, as the next process run constructs it
NewStore ==
    /\ last.op # "NewStore"
    /\ Record([NoCall EXCEPT !.op = "NewStore"])
    /\ UNCHANGED nops
    /\ data_' = EmptyObject
    /\ written' = {}
    /\ pristine' = TRUE
    /\ UNCHANGED <<file, saved>>

(***************************************************************************)
(* The store driven directly through its interface.                        *)
(***************************************************************************)
InitStore ==
    /\ data_ = EmptyObject
    /\ file \in StateFiles
    /\ last = NoCall
    /\ prev = NoCall
    /\ before = EmptyObject
    /\ before_prev = EmptyObject
    /\ nops = 0
    /\ written = {}
    /\ pristine = TRUE
    /\ saved = NotSaved
    /\ argv = <<>>
    /\ pc = "harness"
    /\ program_params_ = NoParams
    /\ script_args_ = <<>>
    /\ errors = <<>>
    /\ cerr = <<>>
    /\ console = ""
    /\ cout = <<>>
    /\ success = FALSE
    /\ outcome = "none"
    /\ exit_code = "running"
    /\ events = <<>>
    /\ committed = << >>

StoreWrite ==
    /\ \E key \in Keys, bytes \in Payloads : CallWrite(key, bytes)
    /\ UNCHANGED hostVars

StoreRead ==
    /\ \E key \in Keys, capacity \in 0..MaxLen : CallRead(key, capacity)
    /\ UNCHANGED hostVars

StoreExists ==
    /\ \E key \in Keys : CallExists(key)
    /\ UNCHANGED hostVars

StoreLoad ==
    /\ CallLoadFromFile
    /\ UNCHANGED hostVars

StoreSave ==
    /\ CallSaveToFile
    /\ UNCHANGED hostVars

StoreNew ==
    /\ NewStore
    /\ UNCHANGED hostVars


NextStore ==
    \/ StoreWrite
    \/ StoreRead
    \/ StoreExists
    \/ StoreLoad
    \/ StoreSave
    \/ StoreNew

SpecStore == InitStore /\ [][NextStore]_vars

(***************************************************************************)
(* The store over the files a run may find at its data path, whatever      *)
(* wrote them: LoadFromFile tests the shape of the root only (lines        *)
(* 176-183), so the members of the file come into the store as they are.   *)
(***************************************************************************)
\* the value is a string of even length made of hex digits
IsHexValue(v) == v.kind = "string" /\ IsHexText(v.text)

\* every member of the document is hex text
HexAtRest(data) == \A k \in DOMAIN data.members : IsHexValue(data.members[k])

\* files with an object root: two that hold four bytes under x as hex text
\* (lower case, mixed case), and three with a member that is no hex text
\* (not hex digits, odd length, a number); and no file
FoundFiles ==
    { AbsentFile,
      FileOf(<<"{", "\"", "x", "\"", ":", "\"", "d", "e", "a", "d", "b", "e", "e", "f",
               "\"", "}">>),
      FileOf(<<"{", "\"", "x", "\"", ":", "\"", "D", "E", "a", "d", "B", "E", "e", "F",
               "\"", "}">>),
      FileOf(<<"{", "\"", "y", "\"", ":", "\"", "z", "z", "\"", "}">>),
      FileOf(<<"{", "\"", "x", "\"", ":", "\"", "a", "b", "c", "\"", "}">>),
      FileOf(<<"{", "\"", "x", "\"", ":", "1", "2", "}">>) }

InitFiles ==
    /\ data_ = EmptyObject
    /\ file \in FoundFiles
    /\ last = NoCall
    /\ prev = NoCall
    /\ before = EmptyObject
    /\ before_prev = EmptyObject
    /\ nops = 0
    /\ written = {}
    /\ pristine = TRUE
    /\ saved = NotSaved
    /\ argv = <<>>
    /\ pc = "harness"
    /\ program_params_ = NoParams
    /\ script_args_ = <<>>
    /\ errors = <<>>
    /\ cerr = <<>>
    /\ console = ""
    /\ cout = <<>>
    /\ success = FALSE
    /\ outcome = "none"
    /\ exit_code = "running"
    /\ events = <<>>
    /\ committed = << >>

\* Write of at most one byte
FilesWrite ==
    /\ \E key \in Keys, bytes \in {p \in Payloads : Len(p) <= 1} : CallWrite(key, bytes)
    /\ UNCHANGED hostVars

\* Read of a key that is absent or holds hex text, with room for MaxLen, four
\* or five bytes (what the codec does with other text is not modelled)
FilesRead ==
    /\ \E key \in Keys, capacity \in {MaxLen, 4, 5} :
          /\ Has(data_, key) => IsHexValue(data_.members[key])
          /\ CallRead(key, capacity)
    /\ UNCHANGED hostVars

\* SaveToFile of any document; the bytes saved are recorded when every
\* member decodes
FilesSave ==
    /\ Called([NoCall EXCEPT !.op = "SaveToFile"])
    /\ file' = SaveToFile(data_)
    /\ saved' = IF HexAtRest(data_)
                THEN [valid |-> TRUE, content |-> Contents(data_)]
                ELSE NotSaved
    /\ UNCHANGED <<data_, written, pristine>>
    /\ UNCHANGED hostVars

NextFiles ==
    \/ FilesWrite
    \/ FilesRead
    \/ StoreExists
    \/ StoreLoad
    \/ FilesSave
    \/ StoreNew

SpecFiles == InitFiles /\ [][NextFiles]_vars

(***************************************************************************)
(* The host: main, from the command line to the exit code, with the calls  *)
(* the script makes during Execute.                                        *)
(***************************************************************************)
\* int32_t Argc(VM *, TypeId)
Argc(script) == Len(script)

\* Argv with the program's name skipped: index 0 is the first argument
\* after the separator
Argv_SkipsProgramName(script, index) ==
    IF index < 0 \/ index + 1 >= Len(script)
    THEN [threw |-> "out_of_range", value |-> ""]
    ELSE [threw |-> "none", value |-> script[index + 2]]

\* Ptr<String> Argv(VM *vm, TypeId, int32_t index): script().at(index); a
\* negative index is, as a std::size_t, beyond every size
Argv(script, index) ==
    IF index < 0 \/ index >= Len(script)
    THEN [threw |-> "out_of_range", value |-> ""]
    ELSE [threw |-> "none", value |-> script[index + 1]]

DataPath == GetParam(program_params_, "data", "")

Init ==
    /\ argv \in CommandLines
    /\ file \in StateFiles
    /\ pc = "start"
    /\ data_ = EmptyObject
    /\ last = NoCall
    /\ prev = NoCall
    /\ before = EmptyObject
    /\ before_prev = EmptyObject
    /\ nops = 0
    /\ written = {}
    /\ pristine = TRUE
    /\ saved = NotSaved
    /\ program_params_ = NoParams
    /\ script_args_ = <<>>
    /\ errors = <<>>
    /\ cerr = <<>>
    /\ console = ""
    /\ cout = <<>>
    /\ success = FALSE
    /\ outcome = "none"
    /\ exit_code = "running"
    /\ events = <<>>
    /\ committed = << >>

\* line 254
MainParse ==
    /\ pc = "start"
    /\ program_params_' = Parse(argv).program_params_
    /\ script_args_' = Parse(argv).script_args_
    /\ events' = Append(events, "Parse")
    /\ pc' = "parsed"
    /\ UNCHANGED <<storeVars, argv, errors, cerr, console, cout, success, outcome,
                   exit_code, committed>>

\* lines 257 to 261
MainUsage ==
    /\ pc = "parsed"
    /\ Len(program_params_.args) # 2
    /\ cerr' = Append(cerr, "Usage")
    /\ exit_code' = "1"
    /\ pc' = "exited"
    /\ UNCHANGED <<storeVars, argv, program_params_, script_args_, errors, console, cout,
                   success, outcome, events, committed>>

\* lines 264 to 278
MainCompile ==
    /\ pc = "parsed"
    /\ Len(program_params_.args) = 2
    /\ errors' \in DiagnosticLists
    /\ events' = Append(events, "Compile")
    /\ pc' = "compiled"
    /\ UNCHANGED <<storeVars, argv, program_params_, script_args_, cerr, console, cout,
                   success, outcome, exit_code, committed>>

\* lines 281 to 291 with the loop of lines 285 to 288 left after one line
MainCompileFailed_FirstLineOnly ==
    /\ pc = "compiled"
    /\ errors # <<>>
    /\ cerr' = cerr \o <<"Failed to compile:", errors[1]>>
    /\ exit_code' = "1"
    /\ pc' = "exited"
    /\ UNCHANGED <<storeVars, argv, program_params_, script_args_, errors, console, cout,
                   success, outcome, events, committed>>

\* lines 281 to 291
MainCompileFailed ==
    /\ pc = "compiled"
    /\ errors # <<>>
    /\ cerr' = cerr \o <<"Failed to compile:">> \o errors
    /\ exit_code' = "1"
    /\ pc' = "exited"
    /\ UNCHANGED <<storeVars, argv, program_params_, script_args_, errors, console, cout,
                   success, outcome, events, committed>>

\* lines 294 to 299
MainCreateVM ==
    /\ pc = "compiled"
    /\ errors = <<>>
    /\ data_' = EmptyObject
    /\ committed' = << >>
    /\ events' = Append(events, "GetVM")
    /\ pc' = "vm"
    /\ UNCHANGED <<file, last, harnessVars, argv, program_params_, script_args_, errors,
                   cerr, console, cout, success, outcome, exit_code>>

\* lines 302 to 305 left out: the run goes on without loading the file
MainLoad_Skipped ==
    /\ pc = "vm"
    /\ pc' = "ready"
    /\ UNCHANGED <<storeVars, argv, program_params_, script_args_, errors, cerr, console,
                   cout, success, outcome, exit_code, events, committed>>

\* lines 302 to 305; an exception LoadFromFile throws is not caught
MainLoad ==
    /\ pc = "vm"
    /\ IF DataPath # ""
       THEN LET r == LoadFromFile(data_, file)
            IN  /\ data_' = r.data
                /\ last' = [NoCall EXCEPT !.op = "LoadFromFile", !.status = r.threw]
                /\ events' = Append(events, "LoadFromFile")
                /\ committed' = IF r.threw = "none" THEN Contents(r.data) ELSE committed
                /\ pc' = IF r.threw = "none" THEN "ready" ELSE "terminated"
                /\ exit_code' = IF r.threw = "none" THEN exit_code ELSE "abort"
       ELSE /\ pc' = "ready"
            /\ UNCHANGED <<data_, last, events, committed, exit_code>>
    /\ UNCHANGED <<file, harnessVars, argv, program_params_, script_args_, errors, cerr,
                   console, cout, success, outcome>>

\* lines 311 and 312, the call: Execute finds the function and runs it, or
\* does not find it and returns false
MainExecute ==
    /\ pc = "ready"
    /\ \E found \in BOOLEAN :
          IF found
          THEN /\ pc' = "executing"
               /\ events' = Append(events, "Execute")
               /\ UNCHANGED <<success, outcome>>
          ELSE /\ pc' = "returned"
               /\ events' = events \o <<"Execute", "Return">>
               /\ success' = FALSE
               /\ outcome' = "not_found"
    /\ UNCHANGED <<storeVars, argv, program_params_, script_args_, errors, cerr, console,
                   cout, exit_code, committed>>

\* the running script calls IoObserverInterface::Write
ScriptWrite ==
    /\ pc = "executing"
    /\ \E key \in Keys, bytes \in Payloads :
          LET r == Write(data_, key, bytes)
          IN  /\ data_' = r.data
              /\ last' = [NoCall EXCEPT !.op = "Write", !.key = key, !.bytes = bytes,
                                         !.status = r.status]
              /\ committed' = [k \in DOMAIN committed \cup {key} |->
                                  IF k = key THEN bytes ELSE committed[k]]
    /\ UNCHANGED <<file, harnessVars, argv, pc, program_params_, script_args_, errors,
                   cerr, console, cout, success, outcome, exit_code, events>>

\* the running script calls IoObserverInterface::Read
ScriptRead ==
    /\ pc = "executing"
    /\ \E key \in Keys, capacity \in 0..MaxLen :
          LET r == Read(data_, key, Buffer(capacity), capacity)
          IN  /\ last' = [NoCall EXCEPT !.op = "Read", !.key = key, !.cap = capacity,
                                         !.buf0 = Buffer(capacity), !.status = r.status,
                                         !.size = r.size, !.buf = r.buf]
              /\ data_' = r.data
    /\ UNCHANGED <<file, harnessVars, hostVars>>

\* the running script calls IoObserverInterface::Exists
ScriptExists ==
    /\ pc = "executing"
    /\ \E key \in Keys :
          last' = [NoCall EXCEPT !.op = "Exists", !.key = key, !.status = Exists(data_, key)]
    /\ UNCHANGED <<data_, file, harnessVars, hostVars>>

\* the running script calls System.Argc()
ScriptArgc ==
    /\ pc = "executing"
    /\ last' = [NoCall EXCEPT !.op = "Argc", !.status = "OK", !.size = Argc(script_args_)]
    /\ UNCHANGED <<data_, file, harnessVars, hostVars>>

\* the running script calls System.Argv(index); the exception of an index
\* out of range is a fault of the call: Execute returns false
ScriptArgv ==
    /\ pc = "executing"
    /\ \E index \in -1..(MaxArgs + 1) :
          LET r  == Argv(script_args_, index)
              ok == r.threw = "none"
          IN  /\ last' = [NoCall EXCEPT !.op = "Argv", !.index = index,
                                         !.status = r.threw, !.ret = r.value]
              /\ pc' = IF ok THEN pc ELSE "returned"
              /\ success' = IF ok THEN success ELSE FALSE
              /\ outcome' = IF ok THEN outcome ELSE "fault"
              /\ events' = IF ok THEN events ELSE Append(events, "Return")
    /\ UNCHANGED <<data_, file, harnessVars, argv, program_params_, script_args_, errors,
                   cerr, console, cout, exit_code, committed>>

\* Execute returns: the function completed (true) or faulted (false)
ExecuteReturn ==
    /\ pc = "executing"
    /\ outcome' \in {"completed", "fault"}
    /\ success' = (outcome' = "completed")
    /\ console' \in {"", "text"}
    /\ events' = Append(events, "Return")
    /\ pc' = "returned"
    /\ UNCHANGED <<storeVars, argv, program_params_, script_args_, errors, cerr, cout,
                   exit_code, committed>>

\* lines 315 to 324
MainReport ==
    /\ pc = "returned"
    /\ cout' = IF console # "" THEN Append(cout, console) ELSE cout
    /\ cerr' = IF ~success THEN Append(cerr, "error") ELSE cerr
    /\ pc' = "reported"
    /\ UNCHANGED <<storeVars, argv, program_params_, script_args_, errors, console,
                   success, outcome, exit_code, events, committed>>

\* lines 327 to 330 with the save made only after a successful Execute
MainSave_OnlyOnSuccess ==
    /\ pc = "reported"
    /\ IF DataPath # "" /\ success
       THEN /\ file' = SaveToFile(data_)
            /\ events' = Append(events, "SaveToFile")
       ELSE UNCHANGED <<file, events>>
    /\ pc' = "saved"
    /\ UNCHANGED <<data_, last, harnessVars, argv, program_params_, script_args_, errors,
                   cerr, console, cout, success, outcome, exit_code, committed>>

\* lines 327 to 330
MainSave ==
    /\ pc = "reported"
    /\ IF DataPath # ""
       THEN /\ file' = SaveToFile(data_)
            /\ events' = Append(events, "SaveToFile")
       ELSE UNCHANGED <<file, events>>
    /\ pc' = "saved"
    /\ UNCHANGED <<data_, last, harnessVars, argv, program_params_, script_args_, errors,
                   cerr, console, cout, success, outcome, exit_code, committed>>

\* line 332 returning 0 whatever success is
MainExit_AlwaysZero ==
    /\ pc = "saved"
    /\ exit_code' = "0"
    /\ pc' = "exited"
    /\ UNCHANGED <<storeVars, argv, program_params_, script_args_, errors, cerr, console,
                   cout, success, outcome, events, committed>>

\* line 332
MainExit ==
    /\ pc = "saved"
    /\ exit_code' = IF success THEN "0" ELSE "1"
    /\ pc' = "exited"
    /\ UNCHANGED <<storeVars, argv, program_params_, script_args_, errors, cerr, console,
                   cout, success, outcome, events, committed>>

Next ==
    \/ MainParse
    \/ MainUsage
    \/ MainCompile
    \/ MainCompileFailed
    \/ MainCreateVM
    \/ MainLoad
    \/ MainExecute
    \/ ScriptWrite
    \/ ScriptRead
    \/ ScriptExists
    \/ ScriptArgc
    \/ ScriptArgv
    \/ ExecuteReturn
    \/ MainReport
    \/ MainSave
    \/ MainExit

Spec == Init /\ [][Next]_vars

(***************************************************************************)
(* Properties of the store (checked under SpecStore).                      *)
(***************************************************************************)
\* the latest call is a Read of the key the call before it wrote
ReadAfterWrite ==
    /\ last.op = "Read"
    /\ prev.op = "Write"
    /\ prev.key = last.key

\* the Read returned OK with the bytes as the value: the size is their
\* number, the buffer starts with them and is otherwise as it was
ReturnedValue(call, bytes) ==
    /\ call.status = "OK"
    /\ call.size = Len(bytes)
    /\ Len(call.buf) = call.cap
    /\ SubSeq(call.buf, 1, Len(bytes)) = bytes
    /\ SubSeq(call.buf, Len(bytes) + 1, call.cap) = SubSeq(call.buf0, Len(bytes) + 1, call.cap)

\* C1: Write(K, B) immediately followed by Read(K, capacity >= len(B))
\* returns OK, reports the size len(B) and puts exactly the bytes B in the
\* buffer, whatever the store held and also for the empty B.
C1_WriteThenRead ==
    (ReadAfterWrite /\ last.cap >= Len(prev.bytes)) => ReturnedValue(last, prev.bytes)

C1_Witness ==
    /\ ReadAfterWrite
    /\ Len(prev.bytes) = MaxLen
    /\ last.cap >= Len(prev.bytes)
    /\ last.status = "OK"

\* C2 as stated: Write(K, B) followed by Read(K, 0) returns
\* BUFFER_TOO_SMALL with the size len(B) and the buffer untouched, for
\* every B.
C2_ProbeAnyValue ==
    (ReadAfterWrite /\ last.cap = 0) =>
        /\ last.status = "BUFFER_TOO_SMALL"
        /\ last.size = Len(prev.bytes)
        /\ last.buf = last.buf0

\* C2 amended: Write(K, B) followed by Read(K, 0) reports the size len(B)
\* and leaves the buffer untouched; the status is BUFFER_TOO_SMALL when B is
\* not empty and OK when B is empty.
C2_Probe ==
    (ReadAfterWrite /\ last.cap = 0) =>
        /\ last.status = (IF prev.bytes = <<>> THEN "OK" ELSE "BUFFER_TOO_SMALL")
        /\ last.size = Len(prev.bytes)
        /\ last.buf = last.buf0

C2_Witness ==
    /\ ReadAfterWrite
    /\ last.cap = 0
    /\ Len(prev.bytes) = MaxLen
    /\ last.status = "BUFFER_TOO_SMALL"

\* C5: Read on a key that is absent from the store returns ERROR and leaves
\* the caller's size and buffer as they were, for every capacity.
C5_ReadAbsent ==
    (last.op = "Read" /\ last.key \notin DOMAIN before.members) =>
        /\ last.status = "ERROR"
        /\ last.size = last.cap
        /\ last.buf = last.buf0

C5_Witness ==
    /\ last.op = "Read"
    /\ last.key \notin DOMAIN before.members
    /\ before.members # << >>
    /\ last.cap = MaxLen
    /\ last.status = "ERROR"

\* C6: Read on a present key always sets the size to the stored length; with
\* capacity >= that length the value is copied and the status is OK, with a
\* smaller capacity the status is BUFFER_TOO_SMALL and no byte of the buffer
\* changes.
C6_ReadPresent ==
    (last.op = "Read" /\ last.key \in DOMAIN before.members) =>
        LET actual == Contents(before)[last.key]
        IN  /\ last.size = Len(actual)
            /\ IF last.cap >= Len(actual)
               THEN ReturnedValue(last, actual)
               ELSE last.status = "BUFFER_TOO_SMALL" /\ last.buf = last.buf0

C6_Witness ==
    /\ last.op = "Read"
    /\ last.key \in DOMAIN before.members
    /\ last.cap >= 1
    /\ last.status = "BUFFER_TOO_SMALL"
    /\ last.size > last.cap

\* C7: on a store constructed and not loaded, Exists(K) is ERROR until the
\* first Write(K, ...) and OK from then on, after any further Read, Write
\* and Exists; it is OK exactly when K is present.
C7_ExistsAfterWrite ==
    (last.op = "Exists" /\ pristine) =>
        /\ last.status = (IF last.key \in written THEN "OK" ELSE "ERROR")
        /\ (last.status = "OK") = (last.key \in DOMAIN before.members)

C7_Witness ==
    /\ last.op = "Exists"
    /\ pristine
    /\ last.status = "OK"
    /\ prev.op = "Write"
    /\ prev.key # last.key

\* C8: Write returns OK and overwrites: after Write(K, B1) and then
\* Write(K, B2), a Read of K with enough capacity returns B2 and len(B2),
\* whatever B1 was, also when B2 is shorter than B1.
C8_Overwrite ==
    /\ last.op = "Write" => last.status = "OK"
    /\ (ReadAfterWrite /\ prev.key \in DOMAIN before_prev.members
            /\ last.cap >= Len(prev.bytes))
        => ReturnedValue(last, prev.bytes)

C8_Witness ==
    /\ ReadAfterWrite
    /\ prev.key \in DOMAIN before_prev.members
    /\ Len(prev.bytes) < Len(Contents(before_prev)[prev.key])
    /\ prev.bytes # <<>>
    /\ last.cap >= Len(prev.bytes)
    /\ last.status = "OK"

\* the latest call is LoadFromFile on a store just constructed, of the file
\* a SaveToFile left
FreshLoadOfSaved ==
    /\ last.op = "LoadFromFile"
    /\ prev.op = "NewStore"
    /\ saved.valid

\* C9: SaveToFile followed by LoadFromFile on a newly constructed store
\* gives a store with the same keys, each reading back the same bytes.
C9_RoundTrip ==
    FreshLoadOfSaved =>
        /\ last.status = "none"
        /\ DOMAIN data_.members = DOMAIN saved.content
        /\ \A k \in DOMAIN saved.content :
              LET n == Len(saved.content[k])
                  r == Read(data_, k, Buffer(n), n)
              IN  r.status = "OK" /\ r.size = n /\ r.buf = saved.content[k]

C9_Witness ==
    /\ FreshLoadOfSaved
    /\ \E k \in DOMAIN saved.content : Len(saved.content[k]) = MaxLen
    /\ DOMAIN data_.members = DOMAIN saved.content

(***************************************************************************)
(* Properties of the host run (checked under Spec).                        *)
(***************************************************************************)
Happened(event) == \E i \in 1..Len(events) : events[i] = event

\* the file has a text that parses and whose root is not an object
NonObjectRoot(f) ==
    /\ ReadFileContents(f) # <<>>
    /\ ParseDocument(f.text).ok
    /\ ~IsObject(ParseDocument(f.text).val)

\* C3 as stated: when the load of a state file whose root is not an object
\* fails, no compile step has been performed.
C3_AbortsBeforeCompile ==
    (pc = "terminated" /\ NonObjectRoot(file)) => ~Happened("Compile")

\* C3 amended: a state file whose root is not an object makes LoadFromFile
\* throw, and the run aborts there, before execution: the compilation has
\* been performed, Execute is never called and nothing is saved.
C3_LoadErrorAborts ==
    (Happened("LoadFromFile") /\ NonObjectRoot(file)) =>
        /\ pc = "terminated"
        /\ last.op = "LoadFromFile"
        /\ last.status = "runtime_error"
        /\ exit_code = "abort"
        /\ events = <<"Parse", "Compile", "GetVM", "LoadFromFile">>

C3_Witness ==
    /\ pc = "terminated"
    /\ NonObjectRoot(file)
    /\ file.text = <<"[", "]">>

\* the arguments of the command line after its first separator
RECURSIVE AfterSeparator(_)
AfterSeparator(args) ==
    IF args = <<>> THEN <<>>
    ELSE IF Head(args) = SEPARATOR THEN Tail(args)
    ELSE AfterSeparator(Tail(args))

\* C4 as stated: System.Argc returns the number of arguments supplied after
\* the separator (2 for "a", "b").
C4_ArgcCountsScriptArgs ==
    last.op = "Argc" => last.size = Len(AfterSeparator(argv))

\* C4 amended: System.Argc returns one more than the number of arguments
\* after the first separator that are not separators themselves: the
\* program's name is the script's argument 0 (3 for "a", "b").
C4_Argc ==
    last.op = "Argc" =>
        last.size = 1 + Len(SelectSeq(AfterSeparator(argv), LAMBDA a : a # SEPARATOR))

C4_Witness ==
    /\ last.op = "Argc"
    /\ AfterSeparator(argv) = <<"a", "b">>
    /\ last.size = 3

\* C10: with a state path, once Execute has been called SaveToFile runs
\* after it returns, after success and after failure alike, and the saved
\* document holds exactly what was loaded and what the script wrote before
\* it returned or faulted.
C10_SaveAfterExecute ==
    /\ (pc \in {"saved", "exited"} /\ DataPath # "" /\ Happened("Execute")) =>
          /\ events = <<"Parse", "Compile", "GetVM", "LoadFromFile", "Execute", "Return",
                        "SaveToFile">>
          /\ file.exists
          /\ ParseDocument(file.text).ok
          /\ IsObject(ParseDocument(file.text).val)
          /\ Contents(ParseDocument(file.text).val) = committed
    /\ Happened("SaveToFile") => pc \in {"saved", "exited"}

C10_Witness ==
    /\ pc = "exited"
    /\ ~success
    /\ events[Len(events)] = "SaveToFile"
    /\ last.op = "Write"
    /\ Len(last.bytes) = MaxLen
    /\ Contents(ParseDocument(file.text).val) = committed

\* C11: the exit code is zero exactly when the compilation gave no
\* diagnostics and the entry function completed without a fault; it is not
\* zero after diagnostics, when the function was not found and when the call
\* faulted.
C11_ExitOutcome ==
    pc \in {"exited", "terminated"} =>
        /\ (exit_code = "0") =
              (Happened("Compile") /\ errors = <<>> /\ outcome = "completed")
        /\ (errors # <<>> \/ outcome \in {"not_found", "fault"}) => exit_code = "1"

C11_Witness ==
    /\ pc = "exited"
    /\ exit_code = "0"
    /\ outcome = "completed"
    /\ errors = <<>>

\* C12: when the compilation returns diagnostics, the host writes every
\* one of them, in the compiler's order, and ends the run with a failure,
\* without creating the VM, loading the state file, executing or saving.
C12_CompileFailure ==
    errors # <<>> =>
        /\ pc \in {"compiled", "exited"}
        /\ events = <<"Parse", "Compile">>
        /\ data_ = EmptyObject
        /\ last = NoCall
        /\ pc = "exited" =>
              /\ cerr = <<"Failed to compile:">> \o errors
              /\ exit_code = "1"

C12_Witness ==
    /\ pc = "exited"
    /\ errors = <<"e2", "e1">>
    /\ Len(cerr) = 3

\* the arguments after the first separator that are not separators
ScriptSide == SelectSeq(AfterSeparator(argv), LAMBDA a : a # SEPARATOR)

\* the latest call is Argv on the list of arguments args: it returned the
\* argument at the index, counted from 0, or threw for an index outside
ArgvOver(args) ==
    IF last.index >= 0 /\ last.index < Len(args)
    THEN last.status = "none" /\ last.ret = args[last.index + 1]
    ELSE last.status = "out_of_range"

\* C16 as stated: Argv(i) returns the script-side argument at index i,
\* index 0 being the first argument after the separator, and faults for an
\* index that is negative or not less than their number.
C16_ArgvFromFirstScriptArg ==
    last.op = "Argv" => ArgvOver(ScriptSide)

\* C16 amended: Argv(0) returns the program's name argv[0] and Argv(i), for
\* i from 1 to the number of script-side arguments, the i-th of them; Argv
\* faults for a negative index and for an index greater than that number.
C16_Argv ==
    last.op = "Argv" => ArgvOver(<<argv[1]>> \o ScriptSide)

C16_Witness ==
    /\ last.op = "Argv"
    /\ ScriptSide = <<"a", "b">>
    /\ last.index = 2
    /\ last.ret = "b"

\* the steps of a run with a state path that reaches its end
FullRun == <<"Parse", "Compile", "GetVM", "LoadFromFile", "Execute", "Return", "SaveToFile">>

\* C15: in a run with a state path the store is created and LoadFromFile
\* completes before Execute starts, SaveToFile starts only after Execute
\* has returned, neither happens while Execute is in progress, and each
\* happens at most once.
C15_Bracketing ==
    DataPath # "" =>
        /\ Len(events) <= Len(FullRun)
        /\ events = SubSeq(FullRun, 1, Len(events))
        /\ pc = "executing" => events = SubSeq(FullRun, 1, 5)
        /\ pc \in {"saved", "exited"} /\ Happened("Execute") => events = FullRun

C15_Witness ==
    /\ DataPath # ""
    /\ pc = "exited"
    /\ events = FullRun
    /\ last.op = "Write"

(***************************************************************************)
(* Further properties of the store (checked under SpecStore).              *)
(***************************************************************************)
\* C13: loading an absent or an empty file is not an error, and a store
\* that was empty stays empty: Exists then returns ERROR for every key.
C13_LoadAbsentOrEmpty ==
    /\ (last.op = "LoadFromFile" /\ ReadFileContents(file) = <<>>) =>
          /\ last.status = "none"
          /\ before = EmptyObject => data_ = EmptyObject
    /\ (last.op = "Exists" /\ prev.op = "LoadFromFile" /\ ReadFileContents(file) = <<>>
            /\ before_prev = EmptyObject)
        => (prev.status = "none" /\ last.status = "ERROR")

C13_Witness ==
    /\ last.op = "Exists"
    /\ prev.op = "LoadFromFile"
    /\ before_prev = EmptyObject
    /\ ~file.exists
    /\ last.status = "ERROR"

\* the two documents answer Read and Exists on the key alike
SameAnswers(d1, d2, k) ==
    /\ Exists(d1, k) = Exists(d2, k)
    /\ \A c \in 0..MaxLen :
          LET r1 == Read(d1, k, Buffer(c), c)
              r2 == Read(d2, k, Buffer(c), c)
          IN  r1.status = r2.status /\ r1.size = r2.size /\ r1.buf = r2.buf

\* C18: Write(K, B) changes only the entry of K: every other key is present
\* or absent as before and reads back the same bytes and size, and no other
\* key is added or removed.
C18_WriteFrame ==
    last.op = "Write" =>
        /\ DOMAIN data_.members = DOMAIN before.members \cup {last.key}
        /\ \A k \in Keys \ {last.key} :
              /\ (k \in DOMAIN data_.members) = (k \in DOMAIN before.members)
              /\ k \in DOMAIN before.members => data_.members[k] = before.members[k]
              /\ SameAnswers(data_, before, k)

C18_Witness ==
    /\ last.op = "Write"
    /\ \E k \in DOMAIN before.members :
          /\ k # last.key
          /\ before.members[k].text # <<>>
          /\ data_.members[k] = before.members[k]

\* C19: Read and Exists never change the store, whatever the key, the
\* capacity and the outcome; on an absent key they do not create it.
C19_ReadOnly ==
    last.op \in {"Read", "Exists"} =>
        /\ data_ = before
        /\ last.status = "ERROR" => last.key \notin DOMAIN data_.members

C19_Witness ==
    /\ last.op = "Read"
    /\ last.status = "ERROR"
    /\ before.members # << >>
    /\ last.key \notin DOMAIN data_.members
    /\ data_ = before

\* C20: LoadFromFile is all or nothing: the load of a file with a text and
\* an object root replaces the whole document (no key of the store that the
\* file lacks is left), the load of an absent or empty file and the load
\* that fails on a root that is no object leave the store as it was.
C20_LoadAllOrNothing ==
    last.op = "LoadFromFile" =>
        IF ReadFileContents(file) = <<>>
        THEN last.status = "none" /\ data_ = before
        ELSE IF NonObjectRoot(file)
        THEN last.status = "runtime_error" /\ data_ = before
        ELSE /\ last.status = "none"
             /\ data_ = ParseDocument(file.text).val
             /\ \A k \in Keys :
                   (k \in DOMAIN data_.members)
                       = (k \in DOMAIN ParseDocument(file.text).val.members)

C20_Witness ==
    /\ last.op = "LoadFromFile"
    /\ last.status = "none"
    /\ ReadFileContents(file) # <<>>
    /\ data_.members # << >>
    /\ \E k \in DOMAIN before.members : k \notin DOMAIN data_.members

(***************************************************************************)
(* Properties of the store over any file (checked under SpecFiles).        *)
(***************************************************************************)
\* the file has a text with an object root the members of which are hex text
HexFile(f) ==
    /\ ReadFileContents(f) # <<>>
    /\ ParseDocument(f.text).ok
    /\ IsObject(ParseDocument(f.text).val)
    /\ HexAtRest(ParseDocument(f.text).val)

\* C14 as stated: in every reachable state every member of the store is a
\* string of even length made of hex digits.
C14_HexInEveryState == HexAtRest(data_)

\* the step is no LoadFromFile of a file with a member that is no hex text
NoForeignLoad ==
    last'.op = "LoadFromFile" =>
        (ReadFileContents(file) = <<>> \/ ~IsObject(ParseDocument(file.text).val)
            \/ HexFile(file))

\* C14: the value Write leaves under its key is hex text that decodes to
\* the bytes written, and no step of the store other than the LoadFromFile
\* of a file with a member that is no hex text ends hex text at rest: Write,
\* Read, Exists, SaveToFile and the other loads keep it, and the file
\* SaveToFile produces then parses to members that are hex text.
C14_HexAtRestKept ==
    /\ [](last.op = "Write" =>
            /\ Has(data_, last.key)
            /\ IsHexValue(data_.members[last.key])
            /\ FromHex(data_.members[last.key].text) = last.bytes)
    /\ [](last.op = "SaveToFile" /\ HexAtRest(data_) => HexFile(file) \/ data_ = EmptyObject)
    /\ [][(HexAtRest(data_) /\ NoForeignLoad) => HexAtRest(data_')]_vars

C14_Witness ==
    /\ last.op = "Write"
    /\ last.bytes # <<>>
    /\ prev.op = "LoadFromFile"
    /\ prev.status = "none"
    /\ \E k \in DOMAIN before.members : k # last.key
    /\ HexAtRest(data_)

\* the latest call is a Read right after a LoadFromFile that took the file
ReadAfterLoad ==
    /\ last.op = "Read"
    /\ prev.op = "LoadFromFile"
    /\ prev.status = "none"
    /\ ReadFileContents(file) # <<>>

DeadBeef == <<"d", "e", "a", "d", "b", "e", "e", "f">>

\* C17: after the load of a file whose root maps K to hex text H, of either
\* case, Read(K, capacity >= len(H)/2) returns OK, the size len(H)/2 and the
\* bytes of H; {"x":"deadbeef"} gives (OK, 4, DE AD BE EF) with capacity 4.
\* The store keeps the text as the file has it and decodes it in Read.
C17_ReadAfterLoad ==
    /\ (ReadAfterLoad /\ Has(ParseDocument(file.text).val, last.key)) =>
          LET H == ParseDocument(file.text).val.members[last.key].text
          IN  /\ before.members[last.key] = VString(H)
              /\ last.cap >= Len(H) \div 2 =>
                    /\ ReturnedValue(last, FromHex(H))
                    /\ last.size = Len(H) \div 2
              /\ (Len(H) = 8 /\ \A i \in 1..8 : DecodeHexChar(H[i]) = DecodeHexChar(DeadBeef[i])
                     /\ last.cap >= 4) =>
                    /\ last.status = "OK"
                    /\ last.size = 4
                    /\ SubSeq(last.buf, 1, 4) = <<222, 173, 190, 239>>
    /\ (last.op = "LoadFromFile" /\ last.status = "none" /\ ReadFileContents(file) # <<>>) =>
          data_ = ParseDocument(file.text).val

C17_Witness ==
    /\ ReadAfterLoad
    /\ last.key = <<"x">>
    /\ last.cap = 4
    /\ Has(before, <<"x">>)
    /\ before.members[<<"x">>].text = DeadBeef
    /\ last.status = "OK"
    /\ last.buf = <<222, 173, 190, 239>>
====
